---- MODULE Spec2Model ----
(***************************************************************************)
(* ngx-ai-docs: the documentation run of generateDocumentationForProject   *)
(* (src/src/generateDocumentation.ts) driven by main                       *)
(* (src/src/generateDocumentationFunction.ts).                             *)
(*                                                                         *)
(* A path is the sequence of its segments; an absolute path starts at the  *)
(* file system root.  A source file is the sequence of its top-level       *)
(* declarations as written; the text of a declaration is the declaration   *)
(* record itself.                                                          *)
(***************************************************************************)
EXTENDS Naturals, Sequences, FiniteSets, TLC

VARIABLES
  tsconfig,      \* the project configuration file on disk
  disk,          \* the source files on disk, in the order the project lists them
  templates,     \* the categories whose template file <category>.md exists
  pc,            \* where the process is
  sourceFiles,   \* project.getSourceFiles()
  fi,            \* index of the source file being traversed
  grp,           \* the declaration group being traversed in that file
  di,            \* index of the declaration in its group
  ki,            \* index of the decorator (class) or binding (variable statement)
  job,           \* <<>> or <<j>>: the job between its template read and its write
  outFs,         \* the written output files: path -> content
  log,           \* the generation calls, file writes, skips and throws, in order
  exitCode       \* <<>> while the process runs, <<status>> once it has exited

vars == <<tsconfig, disk, templates, pc, sourceFiles, fi, grp, di, ki, job,
          outFs, log, exitCode>>

----------------------------------------------------------------------------
(* Bounds of the model *)

MaxFiles == 2
MaxImplements == 3

----------------------------------------------------------------------------
(* Values *)

Undefined == "<undefined>"
NoExit == <<>>

\* a template literal's conversion of a name: `${className}`
TemplateLiteral(v) == IF v = Undefined THEN "undefined" ELSE v

Includes(seq, x) == \E i \in 1..Len(seq) : seq[i] = x

\* a slip: the whole text compared with the prefix
StartsWithWholeText(text, prefix) == text = prefix

StartsWith(text, prefix) ==
  /\ Len(text) >= Len(prefix)
  /\ SubSeq(text, 1, Len(prefix)) = prefix

SeqsUpTo(S, n) == UNION { [1..k -> S] : k \in 0..n }

----------------------------------------------------------------------------
(* Paths (node:path on POSIX) *)

RECURSIVE Normalize(_)
Normalize(p) ==
  IF Len(p) = 0 THEN <<>>
  ELSE LET init == Normalize(SubSeq(p, 1, Len(p) - 1))
           last == p[Len(p)]
       IN  IF last = "." THEN init
           ELSE IF last = ".." /\ Len(init) > 0 /\ init[Len(init)] # ".."
                THEN SubSeq(init, 1, Len(init) - 1)
                ELSE Append(init, last)

Join(a, b) == Normalize(a \o b)

Dirname(p) == IF Len(p) = 0 THEN <<>> ELSE SubSeq(p, 1, Len(p) - 1)

RECURSIVE CommonPrefixLen(_, _)
CommonPrefixLen(a, b) ==
  IF Len(a) = 0 \/ Len(b) = 0 \/ Head(a) # Head(b) THEN 0
  ELSE 1 + CommonPrefixLen(Tail(a), Tail(b))

Relative(from, to) ==
  LET k == CommonPrefixLen(from, to)
  IN  [i \in 1..(Len(from) - k) |-> ".."] \o SubSeq(to, k + 1, Len(to))

Cwd == <<"p">>
Resolve(p) == Join(Cwd, p)

ProjectOption == <<"tsconfig.json">>
OutputOption == <<".", "docs">>

TsconfigPath == Resolve(ProjectOption)
OutputPath == Resolve(OutputOption)

----------------------------------------------------------------------------
(* Declarations *)

Class(n, decs, impls) ==
  [kind |-> "class", name |-> n, decorators |-> decs, implements |-> impls]
Interface(n) == [kind |-> "interface", name |-> n]
Enum(n) == [kind |-> "enum", name |-> n]
TypeAlias(n) == [kind |-> "type", name |-> n]
VariableStatement(exported, declKind, names) ==
  [kind |-> "variable", exported |-> exported, declarationKind |-> declKind,
   names |-> names]
VariableDeclaration(n) == [kind |-> "binding", name |-> n]

OfKind(body, k) == SelectSeq(body, LAMBDA d : d.kind = k)

GroupKind(g) ==
  CASE g = "classes" -> "class"
    [] g = "interfaces" -> "interface"
    [] g = "enums" -> "enum"
    [] g = "types" -> "type"
    [] g = "variables" -> "variable"

Group(file, g) == OfKind(file.body, GroupKind(g))

\* a slip: the enums moved before the interfaces
NextGroupEnumsFirst(g) ==
  CASE g = "classes" -> "enums"
    [] g = "enums" -> "interfaces"
    [] g = "interfaces" -> "types"
    [] g = "types" -> "variables"
    [] g = "variables" -> "classes"

NextGroup(g) ==
  CASE g = "classes" -> "interfaces"
    [] g = "interfaces" -> "enums"
    [] g = "enums" -> "types"
    [] g = "types" -> "variables"
    [] g = "variables" -> "classes"

----------------------------------------------------------------------------
(* Classification of a class decorator *)

\* a slip: the guard contracts tested before HttpInterceptor
InjectableTemplateGuardFirst(implementsTexts) ==
  IF \/ Includes(implementsTexts, "CanActivate")
     \/ Includes(implementsTexts, "CanActivateChild")
     \/ Includes(implementsTexts, "CanDeactivate")
     \/ Includes(implementsTexts, "CanLoad")
  THEN "guard"
  ELSE IF Includes(implementsTexts, "HttpInterceptor") THEN "interceptor"
  ELSE IF \E i \in 1..Len(implementsTexts) :
            StartsWith(implementsTexts[i], "Resolve<")
       THEN "resolver"
  ELSE "service"

InjectableTemplate(implementsTexts) ==
  IF Includes(implementsTexts, "HttpInterceptor") THEN "interceptor"
  ELSE IF \/ Includes(implementsTexts, "CanActivate")
          \/ Includes(implementsTexts, "CanActivateChild")
          \/ Includes(implementsTexts, "CanDeactivate")
          \/ Includes(implementsTexts, "CanLoad")
       THEN "guard"
  ELSE IF \E i \in 1..Len(implementsTexts) :
            StartsWith(implementsTexts[i], "Resolve<")
       THEN "resolver"
  ELSE "service"

TemplateNameFor(name, implementsTexts) ==
  IF name = "Component" THEN "component"
  ELSE IF name = "Directive" THEN "directive"
  ELSE IF name = "Injectable" THEN InjectableTemplate(implementsTexts)
  ELSE IF name = "Pipe" THEN "pipe"
  ELSE IF name = "NgModule" THEN "module"
  ELSE ""

----------------------------------------------------------------------------
(* Template store, generation backend, output files *)

TemplateCategories ==
  {"component", "directive", "service", "guard", "interceptor", "resolver",
   "pipe", "module", "interface", "enum", "type", "constant"}

TemplateFileName(templateName) == templateName \o ".md"

\* fs.readFile(templatePath): the content of the category's template file
ReadTemplate(templateName) == [file |-> TemplateFileName(templateName)]

\* the prompt embeds the template and the code; the backend is deterministic
Prompt(code, template) == [template |-> template, code |-> code]
GenerateDocumentation(code, template) == [generated_text |-> Prompt(code, template)]

EmptyFs == [p \in {} |-> <<>>]

\* a slip: an existing file is kept
WriteFileKeepsExisting(files, path, content) ==
  [p \in (DOMAIN files) \cup {path} |->
     IF p \in DOMAIN files THEN files[p] ELSE content]

WriteFile(files, path, content) ==
  [p \in (DOMAIN files) \cup {path} |-> IF p = path THEN content ELSE files[p]]

\* a slip: dirname forgotten
OutputDirOfFile(relativePath) == Join(OutputPath, relativePath)

OutputDir(relativePath) == Join(OutputPath, Dirname(relativePath))

OutputFilePath(relativePath, name) ==
  Join(OutputDir(relativePath), <<TemplateLiteral(name) \o ".md">>)

----------------------------------------------------------------------------
(* Project loading *)

ProjectRoot == Dirname(TsconfigPath)

IncludePatterns(config) == IF config.hasInclude THEN config.include ELSE <<>>

\* a slip: an array compared by identity is never the empty array
NoPatternsByIdentity(includePatterns) == FALSE

NoPatterns(includePatterns) == Len(includePatterns) = 0

\* a pattern names a directory: it matches the source files below it
Matches(fullPathPattern, path) ==
  /\ Len(path) > Len(fullPathPattern)
  /\ SubSeq(path, 1, Len(fullPathPattern)) = fullPathPattern

AddSourceFilesAtPaths(files, includePatterns) ==
  SelectSeq(files, LAMBDA f :
    \E i \in 1..Len(includePatterns) :
      Matches(Join(Dirname(TsconfigPath), includePatterns[i]), f.path))

RelativePath(sourceFile) == Relative(ProjectRoot, sourceFile.path)

----------------------------------------------------------------------------
(* Inputs *)

FilePaths ==
  { <<"p", "src", "foo", "bar.ts">>,
    <<"p", "src", "foo", "baz.ts">>,
    <<"p", "src", "a.ts">> }

FileBodies ==
  { <<Interface("Foo"), Class("Foo", <<"Component", "Injectable">>, <<>>)>>,
    <<Class(Undefined, <<"Component">>, <<>>), Enum("Color")>>,
    <<Class("AuthGuard", <<"Sealed", "Injectable">>, <<"Resolve<User>", "CanActivate">>),
      Class("Plain", <<>>, <<>>)>>,
    <<VariableStatement(TRUE, "const", <<"A", "B">>),
      VariableStatement(FALSE, "const", <<"C">>),
      VariableStatement(TRUE, "let", <<"D">>),
      TypeAlias("Foo")>>,
    <<Enum("Level"), Class("Foo", <<"Injectable", "Component">>, <<"HttpInterceptor">>)>>,
    <<VariableStatement(TRUE, "const", <<"K">>), TypeAlias("T"), Enum("E"),
      Interface("I"), Class("C", <<"Pipe">>, <<>>),
      Class("D", <<"NgModule", "Directive">>, <<>>)>>,
    <<>> }

FileUniverse == [path : FilePaths, body : FileBodies]

Disks ==
  { d \in SeqsUpTo(FileUniverse, MaxFiles) :
      \A i, j \in 1..Len(d) : i # j => d[i].path # d[j].path }

IncludeLists == { <<>>, << <<"src">> >>, << <<"src", "foo">>, <<".", "src", "foo">> >> }

TsconfigUniverse ==
  { [exists |-> FALSE, hasInclude |-> FALSE, include |-> <<>>],
    [exists |-> TRUE, hasInclude |-> FALSE, include |-> <<>>] }
  \cup { [exists |-> TRUE, hasInclude |-> TRUE, include |-> inc] : inc \in IncludeLists }

TemplateSets ==
  { TemplateCategories \ missing :
      missing \in { {}, {"component"}, {"interface", "constant"},
                    {"service", "interceptor", "enum", "type"} } }

----------------------------------------------------------------------------
(* The run *)

Key == [file |-> fi, group |-> grp, decl |-> di, inner |-> ki]

Event(ev, key, templateName, path) ==
  [ev |-> ev, key |-> key, template |-> templateName, path |-> path]

Init ==
  /\ tsconfig \in TsconfigUniverse
  /\ disk \in Disks
  /\ templates \in TemplateSets
  /\ pc = "main"
  /\ sourceFiles = <<>>
  /\ fi = 1 /\ grp = "classes" /\ di = 1 /\ ki = 1
  /\ job = <<>>
  /\ outFs = EmptyFs
  /\ log = <<>>
  /\ exitCode = NoExit

ProcessExit(code) == pc' = "exit" /\ exitCode' = <<code>>

\* a slip: the error is caught around the job and the traversal goes on
PropagateCaught ==
  /\ pc' = "traverse"
  /\ exitCode' = exitCode
  /\ job' = <<>>
  /\ di' = di + 1 /\ ki' = 1
  /\ UNCHANGED <<fi, grp, outFs>>

\* an error thrown inside a job rejects main(): main().catch exits with 1
Propagate ==
  /\ ProcessExit(1)
  /\ job' = <<>>
  /\ UNCHANGED <<fi, grp, di, ki, outFs>>

\* main, up to the call of generateDocumentationForProject
MainStart ==
  /\ pc = "main"
  /\ IF ~tsconfig.exists
     THEN ProcessExit(1)
     ELSE pc' = "load" /\ exitCode' = exitCode
  /\ UNCHANGED <<tsconfig, disk, templates, sourceFiles, fi, grp, di, ki, job,
                 outFs, log>>

\* generateDocumentationForProject, up to the loop over the source files
LoadProject ==
  /\ pc = "load"
  /\ LET includePatterns == IncludePatterns(tsconfig)
     IN  IF NoPatterns(includePatterns)
         THEN /\ ProcessExit(1)
              /\ UNCHANGED sourceFiles
         ELSE /\ sourceFiles' = AddSourceFilesAtPaths(disk, includePatterns)
              /\ pc' = "traverse"
              /\ exitCode' = exitCode
  /\ fi' = 1 /\ grp' = "classes" /\ di' = 1 /\ ki' = 1
  /\ UNCHANGED <<tsconfig, disk, templates, job, outFs, log>>

AtDeclaration(g) ==
  /\ pc = "traverse"
  /\ fi <= Len(sourceFiles)
  /\ grp = g
  /\ di <= Len(Group(sourceFiles[fi], g))

CurrentDeclaration == Group(sourceFiles[fi], grp)[di]

NextDeclaration == di' = di + 1 /\ ki' = 1 /\ UNCHANGED <<fi, grp>>

\* the next decorator of the class, the next binding of the statement, or the
\* next declaration of the group
NextIteration ==
  IF grp \in {"classes", "variables"}
  THEN ki' = ki + 1 /\ UNCHANGED <<fi, grp, di>>
  ELSE NextDeclaration

\* a slip: return where the loop should continue
SkipJobReturns == NextDeclaration

\* the template is missing: continue (processClass, processVariable) or
\* return (the other helpers)
SkipJob == NextIteration

\* from the template lookup to the call of generateDocumentation
StartJob(name, sourceCode, templateName) ==
  IF templateName \notin templates
  THEN /\ log' = Append(log, Event("skip", Key, templateName, <<>>))
       /\ SkipJob
       /\ UNCHANGED <<pc, job>>
  ELSE /\ job' = << [key |-> Key, name |-> name, sourceCode |-> sourceCode,
                     templateName |-> templateName,
                     template |-> ReadTemplate(templateName),
                     documentation |-> <<>>] >>
       /\ pc' = "generate"
       /\ UNCHANGED <<fi, grp, di, ki, log>>

ProcessClass ==
  /\ AtDeclaration("classes")
  /\ LET cls == CurrentDeclaration
     IN  IF ki > Len(cls.decorators)
         THEN NextDeclaration /\ UNCHANGED <<pc, job, log>>
         ELSE LET name == cls.decorators[ki]
                  templateName == TemplateNameFor(name, cls.implements)
              IN  IF templateName = ""
                  THEN NextIteration /\ UNCHANGED <<pc, job, log>>
                  ELSE StartJob(cls.name, cls, templateName)
  /\ UNCHANGED <<tsconfig, disk, templates, sourceFiles, outFs, exitCode>>

ProcessInterface ==
  /\ AtDeclaration("interfaces")
  /\ StartJob(CurrentDeclaration.name, CurrentDeclaration, "interface")
  /\ UNCHANGED <<tsconfig, disk, templates, sourceFiles, outFs, exitCode>>

ProcessEnum ==
  /\ AtDeclaration("enums")
  /\ StartJob(CurrentDeclaration.name, CurrentDeclaration, "enum")
  /\ UNCHANGED <<tsconfig, disk, templates, sourceFiles, outFs, exitCode>>

ProcessTypeAlias ==
  /\ AtDeclaration("types")
  /\ StartJob(CurrentDeclaration.name, CurrentDeclaration, "type")
  /\ UNCHANGED <<tsconfig, disk, templates, sourceFiles, outFs, exitCode>>

ProcessVariable ==
  /\ AtDeclaration("variables")
  /\ LET variable == CurrentDeclaration
     IN  IF \/ ~variable.exported
            \/ variable.declarationKind # "const"
            \/ ki > Len(variable.names)
         THEN NextDeclaration /\ UNCHANGED <<pc, job, log>>
         ELSE StartJob(variable.names[ki],
                       VariableDeclaration(variable.names[ki]), "constant")
  /\ UNCHANGED <<tsconfig, disk, templates, sourceFiles, outFs, exitCode>>

\* a group of the source file is exhausted: the next group, or the next file
EndOfGroup ==
  /\ pc = "traverse"
  /\ fi <= Len(sourceFiles)
  /\ di > Len(Group(sourceFiles[fi], grp))
  /\ grp' = NextGroup(grp)
  /\ fi' = IF grp = "variables" THEN fi + 1 ELSE fi
  /\ di' = 1 /\ ki' = 1
  /\ UNCHANGED <<tsconfig, disk, templates, pc, sourceFiles, job, outFs, log,
                 exitCode>>

\* the loop over the source files ends: main resolves, the process exits with 0
EndOfRun ==
  /\ pc = "traverse"
  /\ fi > Len(sourceFiles)
  /\ pc' = "done"
  /\ exitCode' = <<0>>
  /\ UNCHANGED <<tsconfig, disk, templates, sourceFiles, fi, grp, di, ki, job,
                 outFs, log>>

GenerateReturns ==
  /\ pc = "generate"
  /\ log' = Append(log, Event("gen", job[1].key, job[1].templateName, <<>>))
  /\ job' = << [job[1] EXCEPT !.documentation =
                  <<GenerateDocumentation(job[1].sourceCode, job[1].template)
                      .generated_text>>] >>
  /\ pc' = "write"
  /\ UNCHANGED <<tsconfig, disk, templates, sourceFiles, fi, grp, di, ki, outFs,
                 exitCode>>

GenerateThrows ==
  /\ pc = "generate"
  /\ log' = log \o << Event("gen", job[1].key, job[1].templateName, <<>>),
                      Event("genThrow", job[1].key, job[1].templateName, <<>>) >>
  /\ Propagate
  /\ UNCHANGED <<tsconfig, disk, templates, sourceFiles>>

WriteReturns ==
  /\ pc = "write"
  /\ LET outputFilePath ==
           OutputFilePath(RelativePath(sourceFiles[fi]), job[1].name)
     IN  /\ outFs' = WriteFile(outFs, outputFilePath, job[1].documentation[1])
         /\ log' = Append(log, Event("write", job[1].key, job[1].templateName,
                                     outputFilePath))
  /\ job' = <<>>
  /\ NextIteration
  /\ pc' = "traverse"
  /\ UNCHANGED <<tsconfig, disk, templates, sourceFiles, exitCode>>

WriteThrows ==
  /\ pc = "write"
  /\ log' = Append(log, Event("writeThrow", job[1].key, job[1].templateName, <<>>))
  /\ Propagate
  /\ UNCHANGED <<tsconfig, disk, templates, sourceFiles>>

Next ==
  \/ MainStart
  \/ LoadProject
  \/ ProcessClass
  \/ ProcessInterface
  \/ ProcessEnum
  \/ ProcessTypeAlias
  \/ ProcessVariable
  \/ EndOfGroup
  \/ EndOfRun
  \/ GenerateReturns
  \/ GenerateThrows
  \/ WriteReturns
  \/ WriteThrows

Spec == Init /\ [][Next]_vars

----------------------------------------------------------------------------
(* The classification alone: one class in one source file, every template *)
(* present, no failure.                                                    *)

DecoratorLists ==
  { <<d>> : d \in {"Component", "Directive", "Injectable", "Pipe", "NgModule",
                    "Sealed"} }
  \cup { <<"Component", "Injectable">>, <<"Injectable", "Injectable">> }

ImplementsTexts ==
  { "HttpInterceptor", "CanActivate", "CanActivateChild", "CanDeactivate",
    "CanLoad", "Resolve<User>", "Resolver", "OnInit" }

InitClassify ==
  /\ tsconfig = [exists |-> TRUE, hasInclude |-> TRUE, include |-> << <<"src">> >>]
  /\ \E decs \in DecoratorLists, impls \in SeqsUpTo(ImplementsTexts, MaxImplements) :
       disk = << [path |-> <<"p", "src", "a.ts">>,
                  body |-> <<Class("Foo", decs, impls)>>] >>
  /\ templates = TemplateCategories
  /\ pc = "main"
  /\ sourceFiles = <<>>
  /\ fi = 1 /\ grp = "classes" /\ di = 1 /\ ki = 1
  /\ job = <<>>
  /\ outFs = EmptyFs
  /\ log = <<>>
  /\ exitCode = NoExit

NextClassify ==
  \/ MainStart
  \/ LoadProject
  \/ ProcessClass
  \/ EndOfGroup
  \/ EndOfRun
  \/ GenerateReturns
  \/ WriteReturns

ClassifySpec == InitClassify /\ [][NextClassify]_vars

----------------------------------------------------------------------------
(* What the claims speak of *)

Range(seq) == { seq[i] : i \in 1..Len(seq) }

RecognizedDecorators == {"Component", "Directive", "Injectable", "Pipe", "NgModule"}
GuardContracts == {"CanActivate", "CanActivateChild", "CanDeactivate", "CanLoad"}

IsResolveContract(text) == Len(text) >= 8 /\ SubSeq(text, 1, 8) = "Resolve<"

\* the category the specification's table gives a decorator of a class
ExpectedInjectableCategory(contracts) ==
  IF "HttpInterceptor" \in contracts THEN "interceptor"
  ELSE IF contracts \cap GuardContracts # {} THEN "guard"
  ELSE IF \E t \in contracts : IsResolveContract(t) THEN "resolver"
  ELSE "service"

ExpectedCategory(decorator, contracts) ==
  CASE decorator = "Component" -> "component"
    [] decorator = "Directive" -> "directive"
    [] decorator = "Pipe" -> "pipe"
    [] decorator = "NgModule" -> "module"
    [] decorator = "Injectable" -> ExpectedInjectableCategory(contracts)
    [] OTHER -> "none"

DeclarationAt(key) == Group(sourceFiles[key.file], key.group)[key.decl]

JobName(key) ==
  IF key.group = "variables" THEN DeclarationAt(key).names[key.inner]
  ELSE DeclarationAt(key).name

JobText(key) ==
  IF key.group = "variables" THEN VariableDeclaration(JobName(key))
  ELSE DeclarationAt(key)

JobCategory(key) ==
  CASE key.group = "classes" ->
         ExpectedCategory(DeclarationAt(key).decorators[key.inner],
                          Range(DeclarationAt(key).implements))
    [] key.group = "interfaces" -> "interface"
    [] key.group = "enums" -> "enum"
    [] key.group = "types" -> "type"
    [] key.group = "variables" -> "constant"

\* the document the backend returns for a job
DocumentOf(key, category) ==
  [template |-> [file |-> category \o ".md"], code |-> JobText(key)]

SameDeclaration(a, b) == a.file = b.file /\ a.group = b.group /\ a.decl = b.decl

GroupRank(g) ==
  CASE g = "classes" -> 1 [] g = "interfaces" -> 2 [] g = "enums" -> 3
    [] g = "types" -> 4 [] g = "variables" -> 5

\* discovery order of two jobs
Before(a, b) ==
  \/ a.file < b.file
  \/ a.file = b.file /\ GroupRank(a.group) < GroupRank(b.group)
  \/ a.file = b.file /\ a.group = b.group /\ a.decl < b.decl
  \/ a.file = b.file /\ a.group = b.group /\ a.decl = b.decl /\ a.inner < b.inner

\* the jobs of the project: a recognized decorator of a class, an interface,
\* an enum, a type alias, a binding of an exported const statement
InnerIndexes(file, g, d) ==
  LET decl == Group(file, g)[d]
  IN  CASE g = "classes" ->
             { k \in 1..Len(decl.decorators) : decl.decorators[k] \in RecognizedDecorators }
        [] g = "variables" ->
             IF decl.exported /\ decl.declarationKind = "const"
             THEN 1..Len(decl.names) ELSE {}
        [] OTHER -> {1}

ProjectJobs ==
  UNION { UNION { UNION {
    { [file |-> f, group |-> g, decl |-> d, inner |-> k] :
        k \in InnerIndexes(sourceFiles[f], g, d) } :
      d \in 1..Len(Group(sourceFiles[f], g)) } :
      g \in {"classes", "interfaces", "enums", "types", "variables"} } :
      f \in 1..Len(sourceFiles) }

EventsOf(ev) == { i \in 1..Len(log) : log[i].ev = ev }
Failed == \E i \in 1..Len(log) : log[i].ev \in {"genThrow", "writeThrow"}

\* the output path of a named declaration, segment by segment
MirroredPath(file, name) ==
  <<"p", "docs">> \o SubSeq(file.path, 2, Len(file.path) - 1) \o <<name \o ".md">>

----------------------------------------------------------------------------
(* C1 *)

IsComponentAndInjectable(cls) ==
  /\ Len(cls.decorators) = 2
  /\ Range(cls.decorators) = {"Component", "Injectable"}
  /\ cls.name # Undefined
  /\ \A k \in 1..2 :
       ExpectedCategory(cls.decorators[k], Range(cls.implements)) \in templates

ClassProcessed(f, d) ==
  /\ pc \notin {"main", "load"}
  /\ \/ fi > f
     \/ fi = f /\ grp # "classes"
     \/ fi = f /\ grp = "classes" /\ di > d

WritesOfClass(f, d) ==
  SelectSeq(log, LAMBDA e : /\ e.ev = "write"
                            /\ e.key.file = f
                            /\ e.key.group = "classes"
                            /\ e.key.decl = d)

GensOfClass(f, d) ==
  SelectSeq(log, LAMBDA e : /\ e.ev = "gen"
                            /\ e.key.file = f
                            /\ e.key.group = "classes"
                            /\ e.key.decl = d)

NoLaterWrite(e) ==
  \A i, j \in EventsOf("write") :
    (log[i] = e /\ j > i) => log[j].path # e.path

\* C1: a processed class decorated with Component and Injectable (templates
\* present) has had exactly two jobs, one per decorator in decorator order,
\* both written to outputRoot/dirname(relativePath)/<className>.md; as long
\* as no other declaration has written that path since, the file holds the
\* document of the second job, not of the first.
C1_SecondWriteWins ==
  \A f \in 1..Len(sourceFiles) :
    \A d \in 1..Len(Group(sourceFiles[f], "classes")) :
      LET cls == Group(sourceFiles[f], "classes")[d]
          w == WritesOfClass(f, d)
          path == MirroredPath(sourceFiles[f], cls.name)
      IN  (IsComponentAndInjectable(cls) /\ ClassProcessed(f, d)) =>
            /\ Len(w) = 2
            /\ Len(GensOfClass(f, d)) = 2
            /\ \A k \in 1..2 :
                 /\ w[k].key.inner = k
                 /\ w[k].path = path
                 /\ w[k].template =
                      ExpectedCategory(cls.decorators[k], Range(cls.implements))
            /\ NoLaterWrite(w[2]) =>
                 /\ path \in DOMAIN outFs
                 /\ outFs[path] = DocumentOf(w[2].key, w[2].template)
                 /\ outFs[path] # DocumentOf(w[1].key, w[1].template)

C1_Witness ==
  /\ pc = "done"
  /\ \E f \in 1..Len(sourceFiles) :
       \E d \in 1..Len(Group(sourceFiles[f], "classes")) :
         LET cls == Group(sourceFiles[f], "classes")[d]
             w == WritesOfClass(f, d)
         IN  /\ IsComponentAndInjectable(cls)
             /\ cls.decorators = <<"Component", "Injectable">>
             /\ Len(w) = 2
             /\ NoLaterWrite(w[2])
             /\ outFs[w[2].path] = DocumentOf(w[2].key, "service")

----------------------------------------------------------------------------
(* C2 *)

\* C2: a job whose template file is missing is skipped: no generation call,
\* no write and no error for it, and the run goes on; a run that ends
\* normally has generated and written, once, every job of the project whose
\* template exists, the jobs after a skipped one included.
C2_MissingTemplateSkipsOnlyThatJob ==
  /\ \A i \in 1..Len(log) :
       /\ log[i].ev = "skip" <=>
            (log[i].template \notin templates)
       /\ log[i].ev = "skip" =>
            /\ \A j \in 1..Len(log) : j # i => log[j].key # log[i].key
            /\ i = Len(log) => (pc # "exit" /\ exitCode \in {NoExit, <<0>>})
  /\ pc = "done" =>
       \A key \in ProjectJobs :
         IF JobCategory(key) \in templates
         THEN /\ Cardinality({ i \in EventsOf("gen") : log[i].key = key }) = 1
              /\ Cardinality({ i \in EventsOf("write") : log[i].key = key }) = 1
         ELSE { i \in 1..Len(log) : log[i].key = key /\ log[i].ev # "skip" } = {}

C2_Witness ==
  /\ pc = "done"
  /\ \E i, j, k \in 1..Len(log) :
       /\ i < j /\ j < k
       /\ log[i].ev = "skip"
       /\ log[j].ev = "write" /\ SameDeclaration(log[i].key, log[j].key)
       /\ log[k].ev = "write" /\ log[k].key.file > log[i].key.file

----------------------------------------------------------------------------
(* C3 *)

RECURSIVE Replay(_, _)
Replay(events, files) ==
  IF Len(events) = 0 THEN files
  ELSE LET e == Head(events)
       IN  Replay(Tail(events),
                  IF e.ev = "write"
                  THEN [p \in (DOMAIN files) \cup {e.path} |->
                          IF p = e.path THEN DocumentOf(e.key, e.template)
                          ELSE files[p]]
                  ELSE files)

\* C3: a failing generation call or file write is the last thing the run
\* does: no job starts after it, the files written before it hold what the
\* last write to each gave them, and the process has exited with status 1.
C3_FailureAbortsRun ==
  \A i \in 1..Len(log) :
    log[i].ev \in {"genThrow", "writeThrow"} =>
      /\ i = Len(log)
      /\ pc = "exit"
      /\ exitCode = <<1>>
      /\ job = <<>>
      /\ ~ ENABLED Next
      /\ outFs = Replay(log, EmptyFs)

C3_Witness ==
  /\ Failed
  /\ pc = "exit"
  /\ EventsOf("write") # {}
  /\ \E key \in ProjectJobs :
       /\ Before(log[Len(log)].key, key)
       /\ JobCategory(key) \in templates

----------------------------------------------------------------------------
(* C4 *)

\* C4: with an existing configuration file whose include list is empty or
\* absent, no source file is traversed, no job starts, nothing is generated
\* or written, and the run can only end with exit status 1.
C4_EmptyIncludeExits ==
  (tsconfig.exists /\ (~tsconfig.hasInclude \/ tsconfig.include = <<>>)) =>
    /\ pc \in {"main", "load", "exit"}
    /\ sourceFiles = <<>>
    /\ job = <<>>
    /\ log = <<>>
    /\ outFs = EmptyFs
    /\ pc = "exit" => exitCode = <<1>>
    /\ pc # "exit" => (exitCode = NoExit /\ ENABLED Next)

C4_Witness ==
  /\ tsconfig.exists /\ tsconfig.hasInclude /\ tsconfig.include = <<>>
  /\ Len(disk) = MaxFiles
  /\ pc = "exit"
  /\ exitCode = <<1>>

----------------------------------------------------------------------------
(* C5, C6 *)

IsInjectableJob(key) ==
  /\ key.group = "classes"
  /\ DeclarationAt(key).decorators[key.inner] = "Injectable"

Contracts(key) == Range(DeclarationAt(key).implements)

\* the jobs started so far, with the category each was given
StartedJobs ==
  { [key |-> log[i].key, template |-> log[i].template] : i \in 1..Len(log) }
  \cup { [key |-> job[i].key, template |-> job[i].templateName] : i \in 1..Len(job) }

\* C5: the category of an Injectable decorator follows the strict priority
\* interceptor, guard, resolver, service over the set of the written
\* contract names, whatever their order; a class implementing
\* HttpInterceptor is never guard, resolver or service; and every
\* Injectable decorator of a processed class has been given a category.
C5_InjectablePriority ==
  /\ \A j \in StartedJobs :
       IsInjectableJob(j.key) =>
         /\ j.template =
              IF "HttpInterceptor" \in Contracts(j.key) THEN "interceptor"
              ELSE IF Contracts(j.key) \cap GuardContracts # {} THEN "guard"
              ELSE IF \E t \in Contracts(j.key) : IsResolveContract(t) THEN "resolver"
              ELSE "service"
         /\ "HttpInterceptor" \in Contracts(j.key) =>
              j.template \notin {"guard", "resolver", "service"}
  /\ pc = "done" =>
       \A key \in ProjectJobs :
         IsInjectableJob(key) => \E j \in StartedJobs : j.key = key

C5_Witness ==
  /\ pc = "done"
  /\ \E i \in EventsOf("gen") :
       /\ IsInjectableJob(log[i].key)
       /\ DeclarationAt(log[i].key).implements =
            <<"Resolve<User>", "CanLoad", "HttpInterceptor">>
       /\ log[i].template = "interceptor"

\* C6 as stated: an Injectable decorator of a class implementing some
\* Resolve<T> is given the category resolver, whatever else the class
\* implements.
C6_ResolveAlwaysResolver ==
  \A j \in StartedJobs :
    (IsInjectableJob(j.key) /\ \E t \in Contracts(j.key) : IsResolveContract(t))
      => j.template = "resolver"

\* C6 amended: an Injectable decorator of a class implementing some
\* Resolve<T>, and neither HttpInterceptor nor one of the guard contracts,
\* is given the category resolver; with HttpInterceptor it is interceptor,
\* otherwise with a guard contract it is guard.
C6_ResolveUnlessInterceptorOrGuard ==
  \A j \in StartedJobs :
    (IsInjectableJob(j.key) /\ \E t \in Contracts(j.key) : IsResolveContract(t))
      => IF "HttpInterceptor" \in Contracts(j.key) THEN j.template = "interceptor"
         ELSE IF Contracts(j.key) \cap GuardContracts # {} THEN j.template = "guard"
         ELSE j.template = "resolver"

C6_Witness ==
  /\ pc = "done"
  /\ \E i \in EventsOf("write") :
       /\ IsInjectableJob(log[i].key)
       /\ DeclarationAt(log[i].key).implements = <<"OnInit", "Resolver", "Resolve<User>">>
       /\ log[i].template = "resolver"

----------------------------------------------------------------------------
(* C7 *)

IsNamedWrite(i) == log[i].ev = "write" /\ JobName(log[i].key) # Undefined

\* C7 as stated: a declaration N of src/foo/bar.ts is written, with output
\* root docs, to docs/foo/bar/N.md.
C7_WrittenUnderFileStem ==
  \A i \in 1..Len(log) :
    (IsNamedWrite(i) /\ sourceFiles[log[i].key.file].path = <<"p", "src", "foo", "bar.ts">>)
      => log[i].path = <<"p", "docs", "foo", "bar", JobName(log[i].key) \o ".md">>

\* C7 amended: the output path mirrors the directory of the source file
\* relative to the project root: a declaration N of src/foo/bar.ts is
\* written, with output root docs, to docs/src/foo/N.md, and the file is
\* there after the write.
C7_MirrorsSourceDirectory ==
  \A i \in 1..Len(log) :
    IsNamedWrite(i) =>
      LET file == sourceFiles[log[i].key.file]
          name == JobName(log[i].key)
      IN  /\ log[i].path = MirroredPath(file, name)
          /\ log[i].path \in DOMAIN outFs
          /\ file.path = <<"p", "src", "foo", "bar.ts">> =>
               log[i].path = <<"p", "docs", "src", "foo", name \o ".md">>
          /\ file.path = <<"p", "src", "a.ts">> =>
               log[i].path = <<"p", "docs", "src", name \o ".md">>

C7_Witness ==
  \E i \in 1..Len(log) :
    /\ IsNamedWrite(i)
    /\ sourceFiles[log[i].key.file].path = <<"p", "src", "foo", "bar.ts">>
    /\ log[i].path = <<"p", "docs", "src", "foo", "Foo.md">>
    /\ log[i].path \in DOMAIN outFs

----------------------------------------------------------------------------
(* C8, C9 *)

\* C8: a declaration without a name produces no job: nothing is generated
\* and nothing is written for it.
C8_UnnamedDeclarationSkipped ==
  \A i \in 1..Len(log) :
    log[i].ev \in {"gen", "write"} => JobName(log[i].key) # Undefined

\* C9: two jobs of two different declarations never write the same path.
C9_CollisionFree ==
  \A i, j \in EventsOf("write") :
    log[i].path = log[j].path => SameDeclaration(log[i].key, log[j].key)

----------------------------------------------------------------------------
(* C10 *)

\* C10: the jobs run one at a time in discovery order (file, then classes,
\* interfaces, enums, type aliases, const bindings, then declaration, then
\* decorator or binding): each event belongs to a later job than the event
\* before it, except the completion that directly follows a generation call
\* (so the order holds between any two events); a generation call begins
\* only when the previous job is written or skipped; a write directly
\* follows the generation call of its job; each job is generated at most
\* once, and only jobs of the project run.
C10_SequentialDiscoveryOrder ==
  LET jobs == ProjectJobs
  IN  /\ \A j \in 2..Len(log) :
           \/ Before(log[j - 1].key, log[j].key)
           \/ /\ log[j - 1].key = log[j].key
              /\ log[j - 1].ev = "gen"
              /\ log[j].ev \in {"write", "genThrow", "writeThrow"}
      /\ \A j \in 1..Len(log) :
           /\ log[j].key \in jobs
           /\ (log[j].ev = "gen" /\ j > 1) => log[j - 1].ev \in {"write", "skip"}
           /\ log[j].ev \in {"write", "genThrow", "writeThrow"} =>
                (j > 1 /\ log[j - 1].ev = "gen" /\ log[j - 1].key = log[j].key)
           /\ (log[j].ev = "gen" /\ j = Len(log)) =>
                (pc = "write" /\ job[1].key = log[j].key)
      /\ \A i, j \in EventsOf("gen") : log[i].key = log[j].key => i = j
      /\ pc = "generate" =>
           /\ job[1].key \in jobs
           /\ Len(log) > 0 =>
                /\ Before(log[Len(log)].key, job[1].key)
                /\ log[Len(log)].ev \in {"write", "skip"}

C10_Witness ==
  /\ pc = "done"
  /\ Len(sourceFiles) = 2
  /\ \A g \in {"classes", "interfaces", "enums", "types", "variables"} :
       \E i \in EventsOf("gen") : log[i].key.file = 1 /\ log[i].key.group = g
  /\ \E i \in EventsOf("gen") : log[i].key.file = 1 /\ log[i].key.inner = 2
  /\ \E i \in EventsOf("gen") : log[i].key.file = 2 /\ log[i].key.decl = 2

====
